---- MODULE Spec2Model ----
(***************************************************************************)
(* Model of the chunking, indexing and search service qdrant-service:      *)
(* app/chunking.py (TextChunker), app/tracker.py (QdrantProcessTracker),    *)
(* app/ingest.py (iter_captions / iter_stories), app/index_all.py           *)
(* (index_documents), app/qdrant_service.py (QdrantService) and the         *)
(* /search endpoint of app/main.py.                                         *)
(*                                                                         *)
(* The specifications of the module:                                       *)
(*   SpecChunker  one TextChunker object, chunk_text run step by step      *)
(*                (entry, one action per loop iteration, return), called   *)
(*                twice in a row;                                          *)
(*   Spec         index_documents run repeatedly against one disk, one     *)
(*                tracker file and one vector store;                       *)
(*   SpecTracker  one QdrantProcessTracker marked, saved and reloaded;     *)
(*   SpecSearch   search requests and hybrid_search calls;                 *)
(*   SpecEnsure   concurrent callers of ensure_collection on one store;    *)
(*   SpecOverlap  index_documents runs that overlap on one tracker file.   *)
(***************************************************************************)
EXTENDS Integers, Sequences, FiniteSets, TLC

VARIABLES
    \* ---- TextChunker object and the frame of one chunk_text call
    chunk_size,     \* self.chunk_size
    overlap,        \* self.overlap
    text,           \* argument text: a sequence of characters
    doc_id,         \* argument doc_id
    metadata,       \* argument metadata (a record, NoMetadata for None)
    words,          \* local words
    chunks,         \* local chunks: the windows built so far
    start,          \* local start
    chunk_index,    \* local chunk_index
    result,         \* the returned list
    cpc,            \* position in chunk_text: entry, loop, backfill, done
    prev,           \* arguments and result of the previous call (observation)
    ncalls          \* calls completed on this chunker object (observation)

cvars == <<chunk_size, overlap, text, doc_id, metadata, words, chunks, start,
           chunk_index, result, cpc, prev, ncalls>>

VARIABLES
    \* ---- the world index_documents runs in
    disk,                   \* the files under DATA_DIR
    tracker_file,           \* config/qdrant-process-tracker.yml
    store,                  \* the vector store: collection name -> set of points
    collections,            \* the collections that exist in the vector store
    next_uuid,              \* uuid4 values drawn so far
    \* ---- the frame of one index_documents run
    pc,                     \* idle, embed, upsert_captions, upsert_stories, commit,
                            \* done (ran to the end), returned (no documents), failed (raised)
    doc_type,               \* argument doc_type
    tracker,                \* tracker.processed_files
    raw_docs,               \* local raw_docs
    all_chunks,             \* local all_chunks
    newly_processed_files,  \* local newly_processed_files
    batch_start,            \* loop variable i
    captions_points,        \* local captions_points
    stories_points,         \* local stories_points
    total_indexed,          \* local total_indexed
    error,                  \* the call that raised, when pc = "failed"
    \* ---- observation
    runs,                   \* runs started
    faults,                 \* failures and short responses injected so far
    tracker_at_start,       \* the tracker file when the current run started
    embed_calls,            \* embedding calls of the current run
    upsert_calls,           \* upsert calls of the current run
    upserted,               \* ids of the points the current run has upserted
    save_ok,                \* the current run's tracker.save() wrote the file
    last_run                \* what the previous run did

pvars == <<disk, tracker_file, store, collections, next_uuid, pc, doc_type, tracker,
           raw_docs, all_chunks, newly_processed_files, batch_start, captions_points,
           stories_points, total_indexed, error, runs, faults, tracker_at_start,
           embed_calls, upsert_calls, upserted, save_ok, last_run>>

VARIABLES
    \* ---- one QdrantProcessTracker object and the file at its tracker_path
    processed_files,        \* self.processed_files: category -> list of sources
    path_file,              \* the file at self.tracker_path
    t_alive,                \* the process holding the object runs (FALSE after a crash)
    last_call,              \* the last call on the tracker (observation)
    prev_call,              \* the call before it (observation)
    t_calls                 \* calls made so far (observation)

tvars == <<processed_files, path_file, t_alive, last_call, prev_call, t_calls>>

VARIABLES
    \* ---- one request to the search endpoint or one call of hybrid_search
    score_threshold,        \* SEARCH_SCORE_THRESHOLD
    s_pc,                   \* idle, lookup, query, fallback, return, filter, done, error
    via,                    \* "endpoint": GET /search; "direct": hybrid_search called
    text_query,             \* argument text_query (Nil for None)
    limit,                  \* argument limit
    lookup,                 \* what client.get_collection gave (observation)
    has_sparse,             \* local has_sparse
    queries,                \* the query_points calls issued, in order (observation)
    hits,                   \* local hits: the response of the query that returned
    results,                \* the list hybrid_search returns
    filtered,               \* the results the endpoint returns
    s_error,                \* the error the request or call ended with
    s_calls                 \* requests and calls made so far (observation)

svars == <<score_threshold, s_pc, via, text_query, limit, lookup, has_sparse, queries,
           hits, results, filtered, s_error, s_calls>>

VARIABLES
    \* ---- callers that upsert the groups of a batch into one vector store concurrently
    e_pc,                   \* caller -> where it is: group (1 captions, 2 stories) and step
    e_groups,               \* caller -> the collections its batch has points for
    e_exists,               \* the collections that exist in the store
    e_create_calls,         \* collection -> create_collection calls issued (observation)
    e_upserts               \* collection -> callers whose points were upserted (observation)

evars == <<e_pc, e_groups, e_exists, e_create_calls, e_upserts>>

VARIABLES
    \* ---- index_documents runs that overlap in time on one tracker file
    o_pc,                   \* run -> start, indexing, commit, done, returned
    o_doc_type,             \* run -> argument doc_type
    o_tracker,              \* run -> its tracker.processed_files
    o_new                   \* run -> its newly_processed_files

ovars == <<o_pc, o_doc_type, o_tracker, o_new>>

vars == <<cvars, pvars, tvars, svars, evars, ovars>>

\* what the actions of one specification leave alone
NotChunker == <<pvars, tvars, svars, evars, ovars>>
NotPipeline == <<cvars, tvars, svars, evars, ovars>>
NotTracker == <<cvars, pvars, svars, evars, ovars>>
NotSearch == <<cvars, pvars, tvars, evars, ovars>>
NotEnsure == <<cvars, pvars, tvars, svars, ovars>>
NotOverlap == <<cvars, tvars, svars, evars>>

\* the pipeline's variables other than the tracker file
PipelineButTrackerFile ==
    <<disk, store, collections, next_uuid, pc, doc_type, tracker, raw_docs, all_chunks,
      newly_processed_files, batch_start, captions_points, stories_points, total_indexed,
      error, runs, faults, tracker_at_start, embed_calls, upsert_calls, upserted, save_ok,
      last_run>>

Nil == "nil"

(***************************************************************************)
(* Bounds of the model.                                                    *)
(***************************************************************************)
MaxLen == 5          \* longest enumerated text, in characters
MaxChunkSize == 6    \* largest enumerated chunk_size (tokens)
MaxOverlap == 3      \* largest enumerated overlap (tokens)
MaxWindows == 6      \* iterations after which a run that has not left the loop is cut
MaxRuns == 2         \* runs of index_documents in one behaviour
MaxFaults == 1       \* failures and short responses injected in one behaviour
MaxCalls == 4        \* calls on one tracker in one behaviour
MaxLimit == 2        \* largest limit of a search
MaxScore == 2        \* scores of the store's hits range over -1..MaxScore
MaxSearches == 2     \* searches in one behaviour
NumCallers == 2      \* concurrent callers of ensure_collection
NumOverlapping == 2  \* index_documents runs that overlap in time

Min(a, b) == IF a < b THEN a ELSE b
Max(a, b) == IF a > b THEN a ELSE b

(***************************************************************************)
(* Texts.  A text is a sequence of characters; " " is whitespace.          *)
(***************************************************************************)
Chars == {"a", "b", " "}

TextsUpTo(n) == UNION {[1..k -> Chars] : k \in 0..n}

\* "word " * n of the tests, the word shortened to one letter
WordText(n) == [i \in 1..(2 * n) |-> IF i % 2 = 1 THEN "w" ELSE " "]

\* str.strip() is empty: only whitespace
IsBlank(t) == \A i \in 1..Len(t) : t[i] = " "

\* str.split(): maximal runs of non-whitespace characters, in order
WordStarts(t) == {i \in 1..Len(t) : t[i] # " " /\ (i = 1 \/ t[i - 1] = " ")}
WordEnd(t, i) == CHOOSE j \in i..Len(t) :
                    /\ \A k \in i..j : t[k] # " "
                    /\ (j = Len(t) \/ t[j + 1] = " ")

split_into_words(t) ==
    LET S == WordStarts(t)
        kth(k) == CHOOSE i \in S : Cardinality({j \in S : j < i}) = k - 1
    IN  [k \in 1..Cardinality(S) |-> SubSeq(t, kth(k), WordEnd(t, kth(k)))]

\* ' '.join(ws)
RECURSIVE Join(_)
Join(ws) ==
    IF ws = <<>> THEN <<>>
    ELSE IF Len(ws) = 1 THEN ws[1]
    ELSE LET h == Len(ws) \div 2
         IN  Join(SubSeq(ws, 1, h)) \o <<" ">> \o Join(SubSeq(ws, h + 1, Len(ws)))

\* Python's seq[lo:hi]: a negative index counts from the end, both are clamped
SliceIndex(i, n) == IF i < 0 THEN Max(i + n, 0) ELSE Min(i, n)

PySlice(s, lo, hi) ==
    LET a == SliceIndex(lo, Len(s))
        b == SliceIndex(hi, Len(s))
    IN  IF a >= b THEN <<>> ELSE SubSeq(s, a + 1, b)

(***************************************************************************)
(* TextChunker                                                             *)
(***************************************************************************)
\* variant: the token count rounded to the nearest word count instead of down
TokensToWordsRounded(tokens) == (tokens * 200 + 133) \div 266

\* int(tokens / 1.33) for tokens >= 0
TokensToWords(tokens) == (tokens * 100) \div 133

words_per_chunk == TokensToWords(chunk_size)
words_overlap == TokensToWords(overlap)

\* variant: a random uuid4 per call instead of the name-based uuid5
generate_chunk_id_uuid4(parent_id, index) ==
    [namespace |-> "random", name |-> <<parent_id, "_chunk_", index, ncalls>>]

\* uuid5(NAMESPACE_DNS, f"{parent_id}_chunk_{chunk_index}"): a name-based hash,
\* one value per seed string; the seed string determines (parent_id, chunk_index)
generate_chunk_id(parent_id, index) ==
    [namespace |-> "dns", name |-> <<parent_id, "_chunk_", index>>]

NoMetadata == <<>>

\* the chunk document built in one loop iteration
ChunkDoc(ws, st, idx, wpc, parent, meta) ==
    LET chunk_words == PySlice(ws, st, st + wpc)
        chunk_text == Join(chunk_words)
    IN  [id |-> generate_chunk_id(parent, idx),
         text |-> chunk_text,
         payload |-> meta @@ [chunk_index |-> idx,
                              chunk_content |-> chunk_text,
                              parent_id |-> parent,
                              total_chunks |-> Nil,
                              start_word |-> st,
                              end_word |-> Min(st + wpc, Len(ws))]]

\* variant: the overlap added to the step instead of subtracted
NextStartPlusOverlap(st, wpc, wo) == st + (wpc + wo)

\* start += (words_per_chunk - words_overlap)
NextStart(st, wpc, wo) == st + (wpc - wo)

\* variant: a tail of at most half a window is merged into the chunk before it
BackfillMergeUpToHalf(cs) ==
    LET n == Len(cs)
        tail == cs[n].payload.end_word - cs[n].payload.start_word
        merged == IF n >= 2 /\ 2 * tail <= TokensToWords(chunk_size)
                  THEN [i \in 1..(n - 1) |->
                          IF i < n - 1 THEN cs[i]
                          ELSE [cs[i] EXCEPT
                                  !.text = Join(PySlice(words, cs[i].payload.start_word,
                                                        cs[n].payload.end_word)),
                                  !.payload = [@ EXCEPT !.end_word = cs[n].payload.end_word]]]
                  ELSE cs
    IN  [i \in 1..Len(merged) |->
            [merged[i] EXCEPT !.payload = [@ EXCEPT !.total_chunks = Len(merged)]]]

\* variant: total_chunks is the index of the last chunk
BackfillLastIndex(cs) ==
    [i \in 1..Len(cs) |->
        [cs[i] EXCEPT !.payload = [@ EXCEPT !.total_chunks = Len(cs) - 1]]]

\* for chunk in chunks: chunk['payload']['total_chunks'] = len(chunks)
BackfillTotal(cs) ==
    [i \in 1..Len(cs) |->
        [cs[i] EXCEPT !.payload = [@ EXCEPT !.total_chunks = Len(cs)]]]

\* chunk_text, lines 57-68: the empty-text return and the locals' initial values
ChunkTextEntry ==
    /\ cpc = "entry"
    /\ IF text = <<>> \/ IsBlank(text)
       THEN /\ result' = <<>>
            /\ cpc' = "done"
            /\ ncalls' = ncalls + 1
            /\ UNCHANGED <<words, chunks, start, chunk_index>>
       ELSE /\ words' = split_into_words(text)
            /\ chunks' = <<>>
            /\ start' = 0
            /\ chunk_index' = 0
            /\ cpc' = "loop"
            /\ UNCHANGED <<result, ncalls>>
    /\ UNCHANGED <<chunk_size, overlap, text, doc_id, metadata, prev>>
    /\ UNCHANGED NotChunker

\* chunk_text, lines 70-101: the loop test and one iteration
ChunkTextLoop ==
    /\ cpc = "loop"
    /\ chunk_index < MaxWindows
    /\ IF start < Len(words)
       THEN /\ chunks' = Append(chunks, ChunkDoc(words, start, chunk_index,
                                                 words_per_chunk, doc_id, metadata))
            /\ start' = NextStart(start, words_per_chunk, words_overlap)
            /\ chunk_index' = chunk_index + 1
            /\ cpc' = IF start + words_per_chunk >= Len(words) THEN "backfill" ELSE "loop"
       ELSE /\ cpc' = "backfill"
            /\ UNCHANGED <<chunks, start, chunk_index>>
    /\ UNCHANGED <<chunk_size, overlap, text, doc_id, metadata, words, result, prev, ncalls>>
    /\ UNCHANGED NotChunker

\* chunk_text, lines 103-107: back-fill total_chunks and return
ChunkTextReturn ==
    /\ cpc = "backfill"
    /\ result' = BackfillTotal(chunks)
    /\ cpc' = "done"
    /\ ncalls' = ncalls + 1
    /\ UNCHANGED <<chunk_size, overlap, text, doc_id, metadata, words, chunks, start,
                   chunk_index, prev>>
    /\ UNCHANGED NotChunker

DocIds == {"doc1", "doc2"}
Metadatas == {NoMetadata, [type |-> "caption", source |-> "captions/a.yml"]}
VariantTexts == {<<"a", " ", "b", "a">>, <<"b", "a", "b", " ", "a", " ", "b">>}

\* the caller calls chunk_text again on the same object: with the same arguments, or
\* with another text, another doc_id or other metadata
ChunkTextCallAgain ==
    /\ cpc = "done"
    /\ ncalls = 1
    /\ prev' = [text |-> text, doc_id |-> doc_id, metadata |-> metadata, result |-> result]
    /\ \/ UNCHANGED <<text, doc_id, metadata>>
       \/ /\ text' \in VariantTexts \ {text}
          /\ UNCHANGED <<doc_id, metadata>>
       \/ /\ doc_id' \in DocIds \ {doc_id}
          /\ UNCHANGED <<text, metadata>>
       \/ /\ metadata' \in Metadatas \ {metadata}
          /\ UNCHANGED <<text, doc_id>>
    /\ cpc' = "entry"
    /\ UNCHANGED <<chunk_size, overlap, words, chunks, start, chunk_index, result, ncalls>>
    /\ UNCHANGED NotChunker

\* chunk_text as one call: the loop of lines 70-101 run to its end
RECURSIVE ChunkLoop(_, _, _, _, _, _, _)
ChunkLoop(ws, st, idx, wpc, wo, parent, meta) ==
    IF st < Len(ws)
    THEN IF st + wpc >= Len(ws)
         THEN <<ChunkDoc(ws, st, idx, wpc, parent, meta)>>
         ELSE <<ChunkDoc(ws, st, idx, wpc, parent, meta)>>
                 \o ChunkLoop(ws, NextStart(st, wpc, wo), idx + 1, wpc, wo, parent, meta)
    ELSE <<>>

chunk_text(t, parent, meta, size, ovl) ==
    IF t = <<>> \/ IsBlank(t)
    THEN <<>>
    ELSE BackfillTotal(ChunkLoop(split_into_words(t), 0, 0, TokensToWords(size),
                                 TokensToWords(ovl), parent, meta))

(***************************************************************************)
(* Configuration of index_all.py, scaled down: windows of 2 words that      *)
(* overlap by 1 word, batches of 2 chunks.                                  *)
(***************************************************************************)
CHUNK_SIZE == 3
CHUNK_OVERLAP == 2
INDEX_BATCH == 2
CAPTIONS_COLLECTION == "captions"
STORIES_COLLECTION == "stories"

Range(sq) == {sq[k] : k \in 1..Len(sq)}

RECURSIVE Flatten(_)
Flatten(sqs) == IF sqs = <<>> THEN <<>> ELSE Head(sqs) \o Flatten(Tail(sqs))

\* the orders in which a Python set can be iterated
Orders(S) == {sq \in [1..Cardinality(S) -> S] : \A a, b \in 1..Cardinality(S) : a # b => sq[a] # sq[b]}

(***************************************************************************)
(* The files under DATA_DIR, in os.walk order, and what ingestion reads     *)
(* from each: the texts a file yields stand for its parsed YAML content.    *)
(***************************************************************************)
WalkOrder == <<"captions/a.yml", "captions/b.yml", "captions/metadata.yml",
               "stories/t1/notes.txt", "stories/t1/page_1.yml", "stories/t1/page_2.yml">>

FileDir(f) == IF f \in {"captions/a.yml", "captions/b.yml", "captions/metadata.yml"}
              THEN "captions" ELSE "stories"

\* f.endswith("tags-content.yml") or f.endswith("metadata.yml") or f.endswith("thread.yml")
IsExcluded(f) == f \in {"captions/metadata.yml"}

\* f.endswith(".yml") or f.endswith(".yaml")
IsYaml(f) == f # "stories/t1/notes.txt"

\* captions/a.yml: a caption of four words; captions/b.yml: a caption file with none of
\* the text fields (its text is None); page_1.yml: posts of two and of three words;
\* page_2.yml: a page whose posts are all comments
FileTexts(f) ==
    CASE f = "captions/a.yml" -> << <<"a", " ", "b", " ", "a", " ", "b">> >>
      [] f = "captions/b.yml" -> << <<>> >>
      [] f = "stories/t1/page_1.yml" -> << <<"a", " ", "b">>, <<"b", " ", "a", " ", "b">> >>
      [] OTHER -> <<>>

FilesIn(dir) == SelectSeq(WalkOrder, LAMBDA f : f \in disk /\ FileDir(f) = dir)

\* iter_captions: one document per caption file that is neither skipped nor excluded
iter_captions(skip_files) ==
    LET fs == SelectSeq(FilesIn("captions"), IsYaml)
    IN  Flatten([k \in 1..Len(fs) |->
            IF (skip_files # {} /\ fs[k] \in skip_files) \/ IsExcluded(fs[k])
            THEN <<>>
            ELSE <<[text |-> FileTexts(fs[k])[1],
                    payload |-> [source |-> fs[k], type |-> "caption"]]>>])

\* iter_stories: one document per post with text of each page that is neither skipped
\* nor excluded
iter_stories(skip_files) ==
    LET fs == FilesIn("stories")
    IN  Flatten([k \in 1..Len(fs) |->
            IF (skip_files # {} /\ fs[k] \in skip_files) \/ IsExcluded(fs[k]) \/ ~IsYaml(fs[k])
            THEN <<>>
            ELSE [j \in 1..Len(FileTexts(fs[k])) |->
                    [text |-> FileTexts(fs[k])[j],
                     payload |-> [source |-> fs[k], type |-> "story"]]]])

(***************************************************************************)
(* QdrantProcessTracker                                                    *)
(***************************************************************************)
EmptyTracker == [captions |-> <<>>, stories |-> <<>>]

\* the keys of processed_files in the order yaml.safe_dump writes them (sorted)
SortedKeys == <<"captions", "images", "stories">>

\* yaml.safe_dump(processed_files, default_flow_style=False): per key, "key: []" for an
\* empty list, else "key:" followed by one "- source" line per entry
safe_dump(tr) ==
    Flatten([k \in 1..Len(SortedKeys) |->
        LET c == SortedKeys[k]
        IN  IF c \notin DOMAIN tr THEN <<>>
            ELSE IF tr[c] = <<>> THEN << <<"key", c, "[]">> >>
            ELSE << <<"key", c, "">> >> \o [j \in 1..Len(tr[c]) |-> <<"item", tr[c][j], "">>]])

\* yaml.safe_load: the mapping key -> list of the "- source" lines that follow the key;
\* an empty document loads as None, here the mapping with no key
safe_load(lines) ==
    LET keyAt == {q \in 1..Len(lines) : lines[q][1] = "key"}
        NextKey(q) == IF \E r \in keyAt : r > q
                      THEN CHOOSE r \in keyAt : r > q /\ \A r2 \in keyAt : r2 > q => r <= r2
                      ELSE Len(lines) + 1
        PosOf(c) == CHOOSE q \in keyAt : lines[q][2] = c
    IN  [c \in {lines[q][2] : q \in keyAt} |->
            [j \in 1..(NextKey(PosOf(c)) - PosOf(c) - 1) |-> lines[PosOf(c) + j][2]]]

\* the tracker file: missing, unparseable, or YAML text
MissingFile == [kind |-> "missing", content |-> <<>>]
CorruptFile == [kind |-> "corrupt", content |-> <<>>]
YamlFile(lines) == [kind |-> "yaml", content |-> lines]
YamlDump(tr) == YamlFile(safe_dump(tr))

\* data.get(key, [])
DataGet(data, key) == IF key \in DOMAIN data THEN data[key] ELSE <<>>

\* variant: load restores the captions list only
load_captions_only(file) ==
    IF file.kind \in {"missing", "corrupt"}
    THEN EmptyTracker
    ELSE [captions |-> DataGet(safe_load(file.content), "captions"), stories |-> <<>>]

\* __init__ and load: a missing file, one yaml cannot parse, or an empty document
\* leaves the empty lists; else the two lists are read from the mapping
load(file) ==
    IF file.kind \in {"missing", "corrupt"}
    THEN EmptyTracker
    ELSE LET data == safe_load(file.content)
         IN  IF DOMAIN data = {}
             THEN EmptyTracker
             ELSE [captions |-> DataGet(data, "captions"), stories |-> DataGet(data, "stories")]

is_processed(tr, file_path, category) ==
    file_path \in Range(DataGet(tr, category))

\* variant: the source is appended without looking for it in the list
mark_as_processed_append(tr, file_path, category) ==
    LET t1 == IF category \in DOMAIN tr THEN tr ELSE tr @@ (category :> <<>>)
    IN  [t1 EXCEPT ![category] = Append(@, file_path)]

mark_as_processed(tr, file_path, category) ==
    LET t1 == IF category \in DOMAIN tr THEN tr ELSE tr @@ (category :> <<>>)
    IN  IF file_path \in Range(t1[category])
        THEN t1
        ELSE [t1 EXCEPT ![category] = Append(@, file_path)]

get_processed_files(tr, category) == Range(DataGet(tr, category))

\* mark_as_processed for each source of a set, in the order the set is iterated
RECURSIVE MarkAll(_, _, _)
MarkAll(tr, order, category) ==
    IF order = <<>> THEN tr
    ELSE MarkAll(mark_as_processed(tr, Head(order), category), Tail(order), category)

\* the cuts of a dump that are YAML of whole entries: nothing, or the lines up to an
\* entry or an empty list
WholeCuts(lines) ==
    {n \in 0..(Len(lines) - 1) : n = 0 \/ lines[n][1] = "item" \/ lines[n][3] = "[]"}

\* the file after a save of tr whose write did not finish: open() failed and the file is
\* as before, or open(path, "w") truncated it and the dump stopped after some of the
\* lines, or in the middle of one (yaml cannot parse the file)
FailedSave(file, tr) ==
    {file, CorruptFile} \cup {YamlFile(SubSeq(safe_dump(tr), 1, n)) : n \in WholeCuts(safe_dump(tr))}

(***************************************************************************)
(* One QdrantProcessTracker object used directly: constructed, marked,      *)
(* saved, and replaced by a new object that loads the same path.            *)
(***************************************************************************)
TrackerSources == {"captions/a.yml", "stories/t1/page_1.yml"}
TrackerCategories == {"captions", "stories", "images"}

Call(op, source, category, outcome) ==
    [op |-> op, source |-> source, category |-> category, outcome |-> outcome,
     before |-> processed_files, file_before |-> path_file]

\* QdrantProcessTracker(): the lists start empty, then load()
TrackerNew ==
    /\ t_calls < MaxCalls
    /\ processed_files' = load(path_file)
    /\ t_alive' = TRUE
    /\ last_call' = Call("new", Nil, Nil, "returned")
    /\ prev_call' = last_call
    /\ t_calls' = t_calls + 1
    /\ UNCHANGED path_file
    /\ UNCHANGED NotTracker

TrackerMark ==
    /\ t_calls < MaxCalls
    /\ t_alive
    /\ \E s \in TrackerSources, c \in TrackerCategories :
        /\ processed_files' = mark_as_processed(processed_files, s, c)
        /\ last_call' = Call("mark", s, c, "returned")
    /\ prev_call' = last_call
    /\ t_calls' = t_calls + 1
    /\ UNCHANGED <<path_file, t_alive>>
    /\ UNCHANGED NotTracker

\* save: the dump is written; or the write raises and save prints the error and
\* returns; or the process dies during the write; or os.makedirs raises out of save
TrackerSave ==
    /\ t_calls < MaxCalls
    /\ t_alive
    /\ \/ /\ path_file' = YamlDump(processed_files)
          /\ last_call' = Call("save", Nil, Nil, "written")
          /\ UNCHANGED t_alive
       \/ /\ path_file' \in FailedSave(path_file, processed_files)
          /\ last_call' = Call("save", Nil, Nil, "swallowed")
          /\ UNCHANGED t_alive
       \/ /\ path_file' \in FailedSave(path_file, processed_files)
          /\ last_call' = Call("save", Nil, Nil, "crashed")
          /\ t_alive' = FALSE
       \/ /\ last_call' = Call("save", Nil, Nil, "raised")
          /\ UNCHANGED <<path_file, t_alive>>
    /\ prev_call' = last_call
    /\ t_calls' = t_calls + 1
    /\ UNCHANGED processed_files
    /\ UNCHANGED NotTracker

NoCall == [op |-> "none", source |-> Nil, category |-> Nil, outcome |-> Nil,
           before |-> EmptyTracker, file_before |-> MissingFile]

\* a tracker constructed where no file exists
TrackerIdle ==
    /\ processed_files = EmptyTracker
    /\ path_file = MissingFile
    /\ t_alive = TRUE
    /\ last_call = NoCall
    /\ prev_call = NoCall
    /\ t_calls = 0

(***************************************************************************)
(* QdrantService.hybrid_search and the /search endpoint.  The store's       *)
(* answer to a query is any list of at most limit hits in descending score  *)
(* order; scores are integers here.                                         *)
(***************************************************************************)
SEARCH_TOP_K == 2

Scores == (0 - 1)..MaxScore

\* the responses the store can give to a query with this limit
Responses(lim) ==
    {r \in UNION {[1..n -> Scores] : n \in 0..lim} :
        \A i \in 1..Len(r) : i > 1 => r[i - 1] >= r[i]}

\* hits.points of a response: the i-th point, with its score
HitPoints(r) == [i \in 1..Len(r) |-> [id |-> i, score |-> r[i], payload |-> [rank |-> i]]]

\* query_points(query=vector, limit=limit)
DenseQuery(lim) == [kind |-> "dense", limit |-> lim, prefetch |-> <<>>]

\* query_points(prefetch=[dense, sparse], query=Fusion.RRF, limit=limit)
FusedQuery(lim) ==
    [kind |-> "fused", limit |-> lim,
     prefetch |-> <<[using |-> "dense", limit |-> lim * 2], [using |-> "sparse", limit |-> lim * 2]>>]

\* truth value of text_query: None and "" are false
TextGiven(tq) == tq \notin {Nil, ""}

\* variant: the fused query is issued whenever the collection has a sparse configuration
UseFusionWithoutText(hs, tq) == hs

\* line 71: if has_sparse and text_query
UseFusion(hs, tq) == hs /\ TextGiven(tq)

\* variant: results above the floor only
PassesFloorStrict(r, floor) == r.score > floor

\* line 173 of main.py: r.get("score", 0) >= SEARCH_SCORE_THRESHOLD
PassesFloor(r, floor) == r.score >= floor

NoHits == [kind |-> Nil, points |-> <<>>]

\* GET /search (type, q, limit), or a direct call of hybrid_search: the type is checked,
\* limit defaults to SEARCH_TOP_K, the query text is embedded
SearchEntry ==
    /\ s_pc \in {"idle", "done", "error"}
    /\ s_calls < MaxSearches
    /\ s_calls' = s_calls + 1
    /\ \E v \in {"endpoint", "direct"}, type \in {"captions", "stories", "all"},
          q \in {Nil, "", "q"}, lim \in 1..MaxLimit, limit_given \in BOOLEAN,
          embedded \in BOOLEAN :
        /\ v = "endpoint" => q # Nil
        /\ v = "direct" => (type # "all" /\ limit_given /\ embedded)
        /\ via' = v
        /\ text_query' = q
        /\ limit' = IF limit_given THEN lim ELSE SEARCH_TOP_K
        /\ IF type = "all"
           THEN s_pc' = "error" /\ s_error' = "invalid type"
           ELSE IF ~embedded
           THEN s_pc' = "error" /\ s_error' = "embed"
           ELSE s_pc' = "lookup" /\ s_error' = Nil
    /\ lookup' = Nil
    /\ has_sparse' = FALSE
    /\ queries' = <<>>
    /\ hits' = NoHits
    /\ results' = <<>>
    /\ filtered' = <<>>
    /\ UNCHANGED score_threshold
    /\ UNCHANGED NotSearch

\* lines 63-68: get_collection raises, or its config has no sparse_vectors_config
\* attribute, or the attribute is None, or it is set
HybridLookup ==
    /\ s_pc = "lookup"
    /\ \E cfg \in {"raises", "no attribute", "none", "sparse"} :
        /\ lookup' = cfg
        /\ has_sparse' = (cfg = "sparse")
    /\ s_pc' = "query"
    /\ UNCHANGED <<score_threshold, via, text_query, limit, queries, hits, results,
                   filtered, s_error, s_calls>>
    /\ UNCHANGED NotSearch

\* lines 71-80 and 88-94: the fused query, or the dense query of the else branch
HybridQuery ==
    /\ s_pc = "query"
    /\ IF UseFusion(has_sparse, text_query)
       THEN /\ queries' = Append(queries, FusedQuery(limit))
            /\ \/ /\ \E r \in Responses(limit) : hits' = [kind |-> "fused", points |-> HitPoints(r)]
                  /\ s_pc' = "return"
               \/ /\ s_pc' = "fallback"
                  /\ UNCHANGED hits
            /\ UNCHANGED s_error
       ELSE /\ queries' = Append(queries, DenseQuery(limit))
            /\ \/ /\ \E r \in Responses(limit) : hits' = [kind |-> "dense", points |-> HitPoints(r)]
                  /\ s_pc' = "return"
                  /\ UNCHANGED s_error
               \/ /\ s_pc' = "error"
                  /\ s_error' = "dense query"
                  /\ UNCHANGED hits
    /\ UNCHANGED <<score_threshold, via, text_query, limit, lookup, has_sparse, results,
                   filtered, s_calls>>
    /\ UNCHANGED NotSearch

\* lines 81-88: the fused query raised; the dense query is issued
HybridFallback ==
    /\ s_pc = "fallback"
    /\ queries' = Append(queries, DenseQuery(limit))
    /\ \/ /\ \E r \in Responses(limit) : hits' = [kind |-> "dense", points |-> HitPoints(r)]
          /\ s_pc' = "return"
          /\ UNCHANGED s_error
       \/ /\ s_pc' = "error"
          /\ s_error' = "dense query"
          /\ UNCHANGED hits
    /\ UNCHANGED <<score_threshold, via, text_query, limit, lookup, has_sparse, results,
                   filtered, s_calls>>
    /\ UNCHANGED NotSearch

\* lines 98-105: the hits as a list of id, score, payload
HybridReturn ==
    /\ s_pc = "return"
    /\ results' = [i \in 1..Len(hits.points) |->
                      [id |-> hits.points[i].id, score |-> hits.points[i].score,
                       payload |-> hits.points[i].payload]]
    /\ s_pc' = IF via = "endpoint" THEN "filter" ELSE "done"
    /\ UNCHANGED <<score_threshold, via, text_query, limit, lookup, has_sparse, queries,
                   hits, filtered, s_error, s_calls>>
    /\ UNCHANGED NotSearch

\* main.py lines 172-176: the score floor
SearchFilter ==
    /\ s_pc = "filter"
    /\ filtered' = SelectSeq(results, LAMBDA r : PassesFloor(r, score_threshold))
    /\ s_pc' = "done"
    /\ UNCHANGED <<score_threshold, via, text_query, limit, lookup, has_sparse, queries,
                   hits, results, s_error, s_calls>>
    /\ UNCHANGED NotSearch

\* no search made yet, under the floor t
SearchIdle(t) ==
    /\ score_threshold = t
    /\ s_pc = "idle"
    /\ via = Nil
    /\ text_query = Nil
    /\ limit = SEARCH_TOP_K
    /\ lookup = Nil
    /\ has_sparse = FALSE
    /\ queries = <<>>
    /\ hits = NoHits
    /\ results = <<>>
    /\ filtered = <<>>
    /\ s_error = Nil
    /\ s_calls = 0

(***************************************************************************)
(* QdrantService.ensure_collection under concurrency: each caller runs      *)
(* lines 116-122 of index_documents for the groups of its batch, one store  *)
(* request per step.  create_collection of a collection that exists is      *)
(* refused by the store and raises.                                         *)
(***************************************************************************)
Callers == 1..NumCallers

GroupOrder == <<CAPTIONS_COLLECTION, STORIES_COLLECTION>>

At(g, step) == [group |-> g, at |-> step]

\* the step after group g is done: get_collection for the next non-empty group, or the end
AfterGroup(c, g) ==
    IF \E h \in (g + 1)..Len(GroupOrder) : GroupOrder[h] \in e_groups[c]
    THEN At(CHOOSE h \in (g + 1)..Len(GroupOrder) :
                /\ GroupOrder[h] \in e_groups[c]
                /\ \A h2 \in (g + 1)..Len(GroupOrder) : GroupOrder[h2] \in e_groups[c] => h <= h2,
            "get")
    ELSE At(Len(GroupOrder) + 1, "done")

\* lines 21-24: get_collection returns when the collection exists and raises when it
\* does not; the except branch goes on to create_collection
AfterGet(exists) == IF exists THEN "upsert" ELSE "create"

\* ensure_collection, first request: client.get_collection
EnsureGet ==
    /\ \E c \in Callers :
        /\ e_pc[c].at = "get"
        /\ e_pc' = [e_pc EXCEPT ![c] =
                       At(e_pc[c].group, AfterGet(GroupOrder[e_pc[c].group] \in e_exists))]
    /\ UNCHANGED <<e_groups, e_exists, e_create_calls, e_upserts>>
    /\ UNCHANGED NotEnsure

\* ensure_collection, second request: client.create_collection; its exception is not
\* caught and leaves ensure_collection and the caller
EnsureCreate ==
    /\ \E c \in Callers :
        LET name == GroupOrder[e_pc[c].group]
        IN  /\ e_pc[c].at = "create"
            /\ e_create_calls' = [e_create_calls EXCEPT ![name] = @ + 1]
            /\ IF name \in e_exists
               THEN /\ e_pc' = [e_pc EXCEPT ![c] = At(e_pc[c].group, "raised")]
                    /\ UNCHANGED e_exists
               ELSE /\ e_pc' = [e_pc EXCEPT ![c] = At(e_pc[c].group, "upsert")]
                    /\ e_exists' = e_exists \cup {name}
    /\ UNCHANGED <<e_groups, e_upserts>>
    /\ UNCHANGED NotEnsure

\* upsert_points for the group, then the next group
UpsertGroup ==
    /\ \E c \in Callers :
        LET name == GroupOrder[e_pc[c].group]
        IN  /\ e_pc[c].at = "upsert"
            /\ name \in e_exists
            /\ e_upserts' = [e_upserts EXCEPT ![name] = @ \cup {c}]
            /\ e_pc' = [e_pc EXCEPT ![c] = AfterGroup(c, e_pc[c].group)]
    /\ UNCHANGED <<e_groups, e_exists, e_create_calls>>
    /\ UNCHANGED NotEnsure

\* callers with batches whose groups are gs, before their first request, on a store
\* holding the collections ex
EnsureStart(gs, ex) ==
    /\ e_groups = gs
    /\ e_pc = [c \in Callers |->
                  IF CAPTIONS_COLLECTION \in gs[c] THEN At(1, "get")
                  ELSE IF STORIES_COLLECTION \in gs[c] THEN At(2, "get")
                  ELSE At(Len(GroupOrder) + 1, "done")]
    /\ e_exists = ex
    /\ e_create_calls = [n \in {CAPTIONS_COLLECTION, STORIES_COLLECTION} |-> 0]
    /\ e_upserts = [n \in {CAPTIONS_COLLECTION, STORIES_COLLECTION} |-> {}]

\* no caller has a batch
EnsureIdle == EnsureStart([c \in Callers |-> {}], {})

\* the index_documents runs that overlap in time
OverlappingRuns == 1..NumOverlapping

\* no overlapping runs are considered
OverlapIdle ==
    /\ o_pc = [r \in OverlappingRuns |-> "returned"]
    /\ o_doc_type = [r \in OverlappingRuns |-> "all"]
    /\ o_tracker = [r \in OverlappingRuns |-> EmptyTracker]
    /\ o_new = [r \in OverlappingRuns |-> [c \in {"captions", "stories"} |-> {}]]

(***************************************************************************)
(* index_documents                                                         *)
(***************************************************************************)
\* variant: every source filed under "stories"
CategoryAlwaysStories(dtype) == "stories"

\* lines 83-89: the tracker category of a document type
Category(dtype) == IF dtype = "caption" THEN "captions" ELSE "stories"

\* variant: a failing batch is skipped and the run goes on to the tracker update
OnBatchErrorCommit == "commit"

\* an exception of the embedding call or of the vector store is not caught in
\* index_documents: the run ends there
OnBatchError == "failed"

SourcesOf(docs) == {docs[k].payload.source : k \in 1..Len(docs)}

\* lines 82-89
NewlyProcessed(docs) ==
    [c \in {"captions", "stories"} |->
        {docs[k].payload.source : k \in {j \in 1..Len(docs) : Category(docs[j].payload.type) = c}}]

\* variant: every batch starts over at the first chunk
BatchFromFirstChunk == SubSeq(all_chunks, 1, Min(batch_start + INDEX_BATCH, Len(all_chunks)))

\* the batch of the current iteration: all_chunks[i : i + INDEX_BATCH]
Batch == SubSeq(all_chunks, batch_start + 1, Min(batch_start + INDEX_BATCH, Len(all_chunks)))

\* the vector the embedding service returns for a text
Embedding(t) == [embedding_of |-> t]

\* lines 104-114: zip(batch, vecs) with n vectors returned, routed by payload type
Points(n) ==
    [k \in 1..Min(Len(Batch), n) |->
        [id |-> Batch[k].id, vector |-> Embedding(Batch[k].text), payload |-> Batch[k].payload]]

\* variant: every point goes to the captions group
RoutesToCaptionsAlways(q) == TRUE

\* line 111: chunk["payload"]["type"] == "caption"
RoutesToCaptions(q) == q.payload.type = "caption"

\* client.upsert: a point replaces the point of the same id
Upsert(coll, pts) ==
    {q \in coll : \A k \in 1..Len(pts) : pts[k].id # q.id} \cup Range(pts)

RunVars == <<doc_type, tracker, raw_docs, all_chunks, newly_processed_files, batch_start,
             captions_points, stories_points, total_indexed>>
World == <<disk, tracker_file, store, collections, next_uuid>>

\* lines 33-89: load the tracker, gather and chunk the new documents
StartRun ==
    /\ pc \in {"idle", "done", "returned", "failed"}
    /\ runs < MaxRuns
    /\ \E dt \in {"all", "captions", "stories"} :
        LET tr == load(tracker_file)
            skip_captions == get_processed_files(tr, "captions")
            skip_stories == get_processed_files(tr, "stories")
            raw == (IF dt \in {"all", "captions"} THEN iter_captions(skip_captions) ELSE <<>>)
                   \o (IF dt \in {"all", "stories"} THEN iter_stories(skip_stories) ELSE <<>>)
            docs == [k \in 1..Len(raw) |->
                        [id |-> [uuid4 |-> next_uuid + k], text |-> raw[k].text,
                         payload |-> raw[k].payload]]
            chs == Flatten([k \in 1..Len(docs) |->
                        chunk_text(docs[k].text, docs[k].id,
                                   [type |-> docs[k].payload.type,
                                    source |-> docs[k].payload.source],
                                   CHUNK_SIZE, CHUNK_OVERLAP)])
        IN  /\ doc_type' = dt
            /\ tracker' = tr
            /\ raw_docs' = docs
            /\ next_uuid' = next_uuid + Len(raw)
            /\ IF docs = <<>>
               THEN /\ pc' = "returned"
                    /\ all_chunks' = <<>>
                    /\ newly_processed_files' = [c \in {"captions", "stories"} |-> {}]
               ELSE /\ pc' = IF chs = <<>> THEN "commit" ELSE "embed"
                    /\ all_chunks' = chs
                    /\ newly_processed_files' = NewlyProcessed(docs)
    /\ batch_start' = 0
    /\ total_indexed' = 0
    /\ captions_points' = <<>>
    /\ stories_points' = <<>>
    /\ error' = Nil
    /\ runs' = runs + 1
    /\ tracker_at_start' = tracker_file
    /\ embed_calls' = 0
    /\ upsert_calls' = 0
    /\ upserted' = {}
    /\ save_ok' = FALSE
    /\ last_run' = [outcome |-> pc, error |-> error, doc_type |-> doc_type,
                    sources |-> SourcesOf(raw_docs), nchunks |-> Len(all_chunks),
                    batch_start |-> batch_start, upserted |-> upserted, saved |-> save_ok]
    /\ UNCHANGED <<disk, tracker_file, store, collections, faults>>
    /\ UNCHANGED NotPipeline

\* lines 96-114: the embedding call returns n vectors for the batch's texts (fewer than
\* the texts when the service's response is short or empty)
EmbedBatch ==
    /\ pc = "embed"
    /\ \E n \in 0..Len(Batch) :
        /\ n < Len(Batch) => faults < MaxFaults
        /\ faults' = IF n < Len(Batch) THEN faults + 1 ELSE faults
        /\ captions_points' = SelectSeq(Points(n), RoutesToCaptions)
        /\ stories_points' = SelectSeq(Points(n), LAMBDA q : ~RoutesToCaptions(q))
    /\ embed_calls' = embed_calls + 1
    /\ pc' = "upsert_captions"
    /\ UNCHANGED <<World, doc_type, tracker, raw_docs, all_chunks, newly_processed_files,
                   batch_start, total_indexed, error, runs, tracker_at_start,
                   upsert_calls, upserted, save_ok, last_run>>
    /\ UNCHANGED NotPipeline

\* line 97: the embedding call raises
EmbedFails ==
    /\ pc = "embed"
    /\ faults < MaxFaults
    /\ faults' = faults + 1
    /\ embed_calls' = embed_calls + 1
    /\ pc' = OnBatchError
    /\ error' = "embed"
    /\ UNCHANGED <<World, RunVars, runs, tracker_at_start, upsert_calls, upserted,
                   save_ok, last_run>>
    /\ UNCHANGED NotPipeline

\* lines 116-118: the captions group of the batch
UpsertCaptions ==
    /\ pc = "upsert_captions"
    /\ \/ /\ captions_points = <<>>
          /\ pc' = "upsert_stories"
          /\ UNCHANGED <<store, collections, faults, error, upsert_calls, upserted>>
       \/ /\ captions_points # <<>>
          /\ collections' = collections \cup {CAPTIONS_COLLECTION}
          /\ store' = [store EXCEPT ![CAPTIONS_COLLECTION] = Upsert(@, captions_points)]
          /\ upserted' = upserted \cup {captions_points[k].id : k \in 1..Len(captions_points)}
          /\ upsert_calls' = upsert_calls + 1
          /\ pc' = "upsert_stories"
          /\ UNCHANGED <<faults, error>>
       \/ /\ captions_points # <<>>        \* ensure_collection raises
          /\ faults < MaxFaults
          /\ faults' = faults + 1
          /\ pc' = OnBatchError
          /\ error' = "upsert"
          /\ UNCHANGED <<store, collections, upsert_calls, upserted>>
       \/ /\ captions_points # <<>>        \* upsert_points raises
          /\ faults < MaxFaults
          /\ faults' = faults + 1
          /\ collections' = collections \cup {CAPTIONS_COLLECTION}
          /\ upsert_calls' = upsert_calls + 1
          /\ pc' = OnBatchError
          /\ error' = "upsert"
          /\ UNCHANGED <<store, upserted>>
    /\ UNCHANGED <<disk, tracker_file, next_uuid, RunVars, runs, tracker_at_start,
                   embed_calls, save_ok, last_run>>
    /\ UNCHANGED NotPipeline

\* the loop goes on with the next batch, or ends
AfterBatch == IF batch_start + INDEX_BATCH < Len(all_chunks) THEN "embed" ELSE "commit"

\* lines 119-125: the stories group of the batch, then the batch is counted
UpsertStories ==
    /\ pc = "upsert_stories"
    /\ \/ /\ stories_points = <<>>
          /\ pc' = AfterBatch
          /\ total_indexed' = total_indexed + Len(Batch)
          /\ batch_start' = batch_start + INDEX_BATCH
          /\ UNCHANGED <<store, collections, faults, error, upsert_calls, upserted>>
       \/ /\ stories_points # <<>>
          /\ collections' = collections \cup {STORIES_COLLECTION}
          /\ store' = [store EXCEPT ![STORIES_COLLECTION] = Upsert(@, stories_points)]
          /\ upserted' = upserted \cup {stories_points[k].id : k \in 1..Len(stories_points)}
          /\ upsert_calls' = upsert_calls + 1
          /\ pc' = AfterBatch
          /\ total_indexed' = total_indexed + Len(Batch)
          /\ batch_start' = batch_start + INDEX_BATCH
          /\ UNCHANGED <<faults, error>>
       \/ /\ stories_points # <<>>         \* ensure_collection raises
          /\ faults < MaxFaults
          /\ faults' = faults + 1
          /\ pc' = OnBatchError
          /\ error' = "upsert"
          /\ UNCHANGED <<store, collections, upsert_calls, upserted, total_indexed, batch_start>>
       \/ /\ stories_points # <<>>         \* upsert_points raises
          /\ faults < MaxFaults
          /\ faults' = faults + 1
          /\ collections' = collections \cup {STORIES_COLLECTION}
          /\ upsert_calls' = upsert_calls + 1
          /\ pc' = OnBatchError
          /\ error' = "upsert"
          /\ UNCHANGED <<store, upserted, total_indexed, batch_start>>
    /\ UNCHANGED <<disk, tracker_file, next_uuid, doc_type, tracker, raw_docs, all_chunks,
                   newly_processed_files, captions_points, stories_points, runs,
                   tracker_at_start, embed_calls, save_ok, last_run>>
    /\ UNCHANGED NotPipeline

\* lines 127-133: mark every source of the run and save the tracker; save swallows an
\* error of the write, os.makedirs before it raises
Commit ==
    /\ pc = "commit"
    /\ \E oc \in Orders(newly_processed_files["captions"]),
          os \in Orders(newly_processed_files["stories"]) :
        LET tr == MarkAll(MarkAll(tracker, oc, "captions"), os, "stories")
        IN  /\ tracker' = tr
            /\ \/ /\ tracker_file' = YamlDump(tr)
                  /\ save_ok' = TRUE
                  /\ pc' = "done"
                  /\ UNCHANGED <<faults, error>>
               \/ /\ faults < MaxFaults
                  /\ faults' = faults + 1
                  /\ tracker_file' \in FailedSave(tracker_file, tr)
                  /\ save_ok' = FALSE
                  /\ pc' = "done"
                  /\ UNCHANGED error
               \/ /\ faults < MaxFaults
                  /\ faults' = faults + 1
                  /\ pc' = "failed"
                  /\ error' = "makedirs"
                  /\ UNCHANGED <<tracker_file, save_ok>>
    /\ UNCHANGED <<disk, store, collections, next_uuid, doc_type, raw_docs, all_chunks,
                   newly_processed_files, batch_start, captions_points, stories_points,
                   total_indexed, runs, tracker_at_start, embed_calls, upsert_calls,
                   upserted, last_run>>
    /\ UNCHANGED NotPipeline

\* the files that are on every disk, and the ones a disk may hold
FixedFiles == {"captions/metadata.yml", "stories/t1/notes.txt"}
SourceFiles == {"captions/a.yml", "captions/b.yml", "stories/t1/page_1.yml",
                "stories/t1/page_2.yml"}

NoRun == [outcome |-> "idle", error |-> Nil, doc_type |-> Nil, sources |-> {}, nchunks |-> 0,
          batch_start |-> 0, upserted |-> {}, saved |-> FALSE]

\* before the first run, on disk d: no tracker file, an empty vector store
PipelineIdle(d) ==
    /\ disk = d
    /\ tracker_file = MissingFile
    /\ store = [c \in {CAPTIONS_COLLECTION, STORIES_COLLECTION} |-> {}]
    /\ collections = {}
    /\ next_uuid = 0
    /\ pc = "idle"
    /\ doc_type = Nil
    /\ tracker = EmptyTracker
    /\ raw_docs = <<>>
    /\ all_chunks = <<>>
    /\ newly_processed_files = [c \in {"captions", "stories"} |-> {}]
    /\ batch_start = 0
    /\ captions_points = <<>>
    /\ stories_points = <<>>
    /\ total_indexed = 0
    /\ error = Nil
    /\ runs = 0
    /\ faults = 0
    /\ tracker_at_start = MissingFile
    /\ embed_calls = 0
    /\ upsert_calls = 0
    /\ upserted = {}
    /\ save_ok = FALSE
    /\ last_run = NoRun

\* a chunker that is not called
ChunkerIdle ==
    /\ chunk_size = CHUNK_SIZE
    /\ overlap = CHUNK_OVERLAP
    /\ text = <<>>
    /\ doc_id = Nil
    /\ metadata = NoMetadata
    /\ words = <<>>
    /\ chunks = <<>>
    /\ start = 0
    /\ chunk_index = 0
    /\ result = <<>>
    /\ cpc = "idle"
    /\ prev = Nil
    /\ ncalls = 0

Init ==
    /\ \E d \in SUBSET SourceFiles : PipelineIdle(FixedFiles \cup d)
    /\ ChunkerIdle
    /\ TrackerIdle
    /\ SearchIdle(0)
    /\ EnsureIdle
    /\ OverlapIdle

Next ==
    \/ StartRun
    \/ EmbedBatch
    \/ EmbedFails
    \/ UpsertCaptions
    \/ UpsertStories
    \/ Commit

Spec == Init /\ [][Next]_vars

\* the inputs of the first call: every short text under every small chunk_size and
\* overlap, and the texts and parameters of tests/test_chunking_merge.py
ExampleCalls ==
    {[text |-> WordText(n), chunk_size |-> 40, overlap |-> o] :
        n \in {40, 50, 54, 57, 60}, o \in {0, 13}}

SmallCalls ==
    {[text |-> t, chunk_size |-> c, overlap |-> o] :
        t \in TextsUpTo(MaxLen), c \in 1..MaxChunkSize, o \in 0..MaxOverlap}

InitChunker ==
    /\ \E call \in SmallCalls \cup ExampleCalls :
          /\ text = call.text
          /\ chunk_size = call.chunk_size
          /\ overlap = call.overlap
    /\ doc_id = "doc1"
    /\ metadata = NoMetadata
    /\ words = <<>>
    /\ chunks = <<>>
    /\ start = 0
    /\ chunk_index = 0
    /\ result = <<>>
    /\ cpc = "entry"
    /\ prev = Nil
    /\ ncalls = 0
    /\ PipelineIdle(FixedFiles)
    /\ TrackerIdle
    /\ SearchIdle(0)
    /\ EnsureIdle
    /\ OverlapIdle

NextChunker ==
    \/ ChunkTextEntry
    \/ ChunkTextLoop
    \/ ChunkTextReturn
    \/ ChunkTextCallAgain

SpecChunker == InitChunker /\ [][NextChunker]_vars

\* one tracker object at a time on one path, called MaxCalls times
InitTracker ==
    /\ TrackerIdle
    /\ PipelineIdle(FixedFiles)
    /\ ChunkerIdle
    /\ SearchIdle(0)
    /\ EnsureIdle
    /\ OverlapIdle

NextTracker ==
    \/ TrackerNew
    \/ TrackerMark
    \/ TrackerSave

SpecTracker == InitTracker /\ [][NextTracker]_vars

\* searches under each configured score floor
InitSearch ==
    /\ \E t \in Scores : SearchIdle(t)
    /\ PipelineIdle(FixedFiles)
    /\ ChunkerIdle
    /\ TrackerIdle
    /\ EnsureIdle
    /\ OverlapIdle

NextSearch ==
    \/ SearchEntry
    \/ HybridLookup
    \/ HybridQuery
    \/ HybridFallback
    \/ HybridReturn
    \/ SearchFilter

SpecSearch == InitSearch /\ [][NextSearch]_vars

\* concurrent callers, each with a batch of captions, stories or both, on a store
\* where each collection exists or not
InitEnsure ==
    /\ \E gs \in [Callers -> SUBSET {CAPTIONS_COLLECTION, STORIES_COLLECTION}],
          ex \in SUBSET {CAPTIONS_COLLECTION, STORIES_COLLECTION} : EnsureStart(gs, ex)
    /\ PipelineIdle(FixedFiles)
    /\ ChunkerIdle
    /\ TrackerIdle
    /\ SearchIdle(0)
    /\ OverlapIdle

NextEnsure ==
    \/ EnsureGet
    \/ EnsureCreate
    \/ UpsertGroup

SpecEnsure == InitEnsure /\ [][NextEnsure]_vars

(***************************************************************************)
(* index_documents runs that overlap in time (separate processes) and share *)
(* the tracker file.  Each run loads the tracker when it starts and saves   *)
(* it when its batches are done; its batches all succeed.                   *)
(***************************************************************************)
\* lines 41-57 and 81-89: load the tracker, gather the documents not yet tracked
RunLoad ==
    /\ \E r \in OverlappingRuns :
        LET tr == load(tracker_file)
            dt == o_doc_type[r]
            raw == (IF dt \in {"all", "captions"}
                    THEN iter_captions(get_processed_files(tr, "captions")) ELSE <<>>)
                   \o (IF dt \in {"all", "stories"}
                       THEN iter_stories(get_processed_files(tr, "stories")) ELSE <<>>)
        IN  /\ o_pc[r] = "start"
            /\ o_tracker' = [o_tracker EXCEPT ![r] = tr]
            /\ o_new' = [o_new EXCEPT ![r] = NewlyProcessed(raw)]
            /\ o_pc' = [o_pc EXCEPT ![r] = IF raw = <<>> THEN "returned" ELSE "indexing"]
    /\ UNCHANGED <<o_doc_type, tracker_file>>
    /\ UNCHANGED PipelineButTrackerFile
    /\ UNCHANGED NotOverlap

\* lines 91-125: every batch of the run is embedded and upserted
RunBatches ==
    /\ \E r \in OverlappingRuns :
        /\ o_pc[r] = "indexing"
        /\ o_pc' = [o_pc EXCEPT ![r] = "commit"]
    /\ UNCHANGED <<o_doc_type, o_tracker, o_new, tracker_file>>
    /\ UNCHANGED PipelineButTrackerFile
    /\ UNCHANGED NotOverlap

\* lines 127-133: mark the run's sources in its own tracker object and save it
RunCommit ==
    /\ \E r \in OverlappingRuns :
        /\ o_pc[r] = "commit"
        /\ \E oc \in Orders(o_new[r]["captions"]), os \in Orders(o_new[r]["stories"]) :
            LET tr == MarkAll(MarkAll(o_tracker[r], oc, "captions"), os, "stories")
            IN  /\ o_tracker' = [o_tracker EXCEPT ![r] = tr]
                /\ tracker_file' = YamlDump(tr)
        /\ o_pc' = [o_pc EXCEPT ![r] = "done"]
    /\ UNCHANGED <<o_doc_type, o_new>>
    /\ UNCHANGED PipelineButTrackerFile
    /\ UNCHANGED NotOverlap

\* runs with the doc_type arguments dts, not yet started
OverlapStart(dts) ==
    /\ o_pc = [r \in OverlappingRuns |-> "start"]
    /\ o_doc_type = dts
    /\ o_tracker = [r \in OverlappingRuns |-> EmptyTracker]
    /\ o_new = [r \in OverlappingRuns |-> [c \in {"captions", "stories"} |-> {}]]

InitOverlap ==
    /\ \E dts \in [OverlappingRuns -> {"all", "captions", "stories"}] : OverlapStart(dts)
    /\ \E d \in SUBSET SourceFiles : PipelineIdle(FixedFiles \cup d)
    /\ ChunkerIdle
    /\ TrackerIdle
    /\ SearchIdle(0)
    /\ EnsureIdle

NextOverlap ==
    \/ RunLoad
    \/ RunBatches
    \/ RunCommit

SpecOverlap == InitOverlap /\ [][NextOverlap]_vars

(***************************************************************************)
(* Properties of TextChunker.chunk_text, checked under SpecChunker.         *)
(***************************************************************************)
\* chunk_text has returned a list built by the loop (the text was not blank)
Returned == cpc = "done" /\ ~IsBlank(text)

N == Len(words)
NumWindows == Len(chunks)
WordCount(c) == Len(split_into_words(c.text))
WordCounts(cs) == [i \in 1..Len(cs) |-> WordCount(cs[i])]
WindowStart(i) == chunks[i].payload.start_word
WindowEnd(i) == chunks[i].payload.end_word
\* the word count of the last window the loop built
TailWords == Len(PySlice(words, WindowStart(NumWindows), WindowStart(NumWindows) + words_per_chunk))

\* C1: when a text windows into at least two chunks and the last window holds strictly
\* fewer than half of words_per_chunk words, chunk_text does not return that window as
\* a chunk of its own: the list is one shorter than the window list and its last chunk
\* ends at the text's word count; chunk_size=40, overlap=0 on 40 words gives 1 chunk of
\* 40 words, chunk_size=40, overlap=13 on 54 words gives 2 chunks, the last of 33 words.
C1_TailMerged ==
    /\ (Returned /\ NumWindows >= 2 /\ 2 * TailWords < words_per_chunk)
          => /\ Len(result) = NumWindows - 1
             /\ result[Len(result)].payload.end_word = N
             /\ result[Len(result)].payload.start_word = WindowStart(NumWindows - 1)
    /\ (Returned /\ chunk_size = 40 /\ overlap = 0 /\ text = WordText(40))
          => WordCounts(result) = <<40>>
    /\ (Returned /\ chunk_size = 40 /\ overlap = 13 /\ text = WordText(54))
          => Len(result) = 2 /\ WordCount(result[2]) = 33

\* C2: when the last window holds at least half of words_per_chunk words (exactly half
\* included), chunk_text returns every window as a chunk, the last one as a separate
\* final chunk and the earlier ones as built; chunk_size=40, overlap=0 gives 30+30
\* words for a 60-word text and 30+20 words for a 50-word text.
C2_NoMergeAtOrAboveHalf ==
    /\ (Returned /\ 2 * TailWords >= words_per_chunk)
          => /\ Len(result) = NumWindows
             /\ \A i \in 1..NumWindows :
                   /\ result[i].text = chunks[i].text
                   /\ result[i].id = chunks[i].id
                   /\ result[i].payload.start_word = WindowStart(i)
                   /\ result[i].payload.end_word = WindowEnd(i)
    /\ (Returned /\ chunk_size = 40 /\ overlap = 0 /\ text = WordText(60))
          => WordCounts(result) = <<30, 30>>
    /\ (Returned /\ chunk_size = 40 /\ overlap = 0 /\ text = WordText(50))
          => WordCounts(result) = <<30, 20>>

\* C2 witness: a returned call whose last window holds exactly half a window, after a
\* full one
C2_Witness ==
    /\ Returned
    /\ NumWindows >= 2
    /\ words_per_chunk > 0
    /\ 2 * TailWords = words_per_chunk
    /\ Len(result) = NumWindows

\* C7: a second call with the same text, doc_id and metadata on the same chunker returns
\* a list of the same length with the same ids, texts and chunk_index values in the same
\* order; and whatever the texts and the metadata of the two calls, chunks with the same
\* doc_id and the same chunk_index have the same id.
C7_DeterministicChunking ==
    (cpc = "done" /\ ncalls = 2) =>
        /\ (text = prev.text /\ doc_id = prev.doc_id /\ metadata = prev.metadata)
              => /\ Len(result) = Len(prev.result)
                 /\ \A i \in 1..Len(result) :
                       /\ result[i].id = prev.result[i].id
                       /\ result[i].text = prev.result[i].text
                       /\ result[i].payload.chunk_index = prev.result[i].payload.chunk_index
        /\ doc_id = prev.doc_id
              => \A i \in 1..Len(result), j \in 1..Len(prev.result) :
                    result[i].payload.chunk_index = prev.result[j].payload.chunk_index
                       => result[i].id = prev.result[j].id

\* C7 witness: the second of two calls with the same arguments has returned several chunks
C7_Witness ==
    /\ cpc = "done" /\ ncalls = 2
    /\ text = prev.text /\ doc_id = prev.doc_id /\ metadata = prev.metadata
    /\ Len(result) >= 2

\* the word positions chunk i of the returned list covers
Covered(i) == {p \in 0..(N - 1) : result[i].payload.start_word <= p /\ p < result[i].payload.end_word}

\* C8: for chunk_size >= 1 and overlap >= 0, whenever chunk_text returns a non-empty
\* list, each chunk's text is the words start_word..end_word-1 of the split text, every
\* word position lies in a chunk, the first chunk starts at 0, the last ends at N, and
\* two consecutive chunks share exactly the last words_overlap words of the earlier one.
C8_Coverage ==
    Returned =>
        /\ Len(result) >= 1
        /\ \A i \in 1..Len(result) :
              /\ result[i].payload.start_word >= 0
              /\ split_into_words(result[i].text)
                    = SubSeq(words, result[i].payload.start_word + 1, result[i].payload.end_word)
        /\ \A p \in 0..(N - 1) : \E i \in 1..Len(result) : p \in Covered(i)
        /\ result[1].payload.start_word = 0
        /\ result[Len(result)].payload.end_word = N
        /\ \A i \in 1..(Len(result) - 1) :
              Covered(i) \cap Covered(i + 1)
                 = {p \in Covered(i) : p >= result[i].payload.end_word - words_overlap}

\* C8 witness: a returned list of three chunks that overlap
C8_Witness ==
    /\ Returned
    /\ Len(result) >= 3
    /\ words_overlap >= 1
    /\ Covered(1) \cap Covered(2) # {}

\* C9: with words_per_chunk = floor(chunk_size / 1.33) and words_overlap =
\* floor(overlap / 1.33), the window built at step i starts at word offset
\* i * (words_per_chunk - words_overlap) and spans min(words_per_chunk, N - start)
\* words, and the windowing stops with the first window whose end offset
\* start + words_per_chunk is at least N.
C9_Windowing ==
    (cpc \in {"loop", "backfill", "done"} /\ ~IsBlank(text)) =>
        /\ \A i \in 1..NumWindows :
              /\ WindowStart(i) = (i - 1) * (words_per_chunk - words_overlap)
              /\ WordCount(chunks[i]) = Min(words_per_chunk, N - WindowStart(i))
              /\ i < NumWindows => WindowStart(i) + words_per_chunk < N
        /\ cpc \in {"backfill", "done"}
              => WindowStart(NumWindows) + words_per_chunk >= N

ChunkTextAsOneCall ==
    Returned => result = chunk_text(text, doc_id, metadata, chunk_size, overlap)

(***************************************************************************)
(* Properties of index_documents, checked under Spec.                       *)
(***************************************************************************)
TrackedSources(tr) == Range(tr.captions) \cup Range(tr.stories)

\* the sources the current run has marked in its tracker
MarkedThisRun == TrackedSources(tracker) \ TrackedSources(load(tracker_at_start))

\* the embedding call or an upsert of the current run raised
BatchFailed == error \in {"embed", "upsert"}

\* a run with doc_type now ingests the categories a run with doc_type before ingested
Covers(now, before) == now = "all" \/ now = before

\* C3: a source is marked in the tracker only after every chunk derived from its raw
\* documents in this run has been upserted, and no source is marked (in memory or in
\* the file) while a batch of the run is pending or has failed.
C3_CommitOrdering ==
    /\ \A k \in 1..Len(all_chunks) :
          all_chunks[k].payload.source \in MarkedThisRun => all_chunks[k].id \in upserted
    /\ (pc \in {"embed", "upsert_captions", "upsert_stories"} \/ BatchFailed)
          => /\ MarkedThisRun = {}
             /\ tracker_file = tracker_at_start

\* C4: when the embedding call or an upsert raises in a batch, the tracker file is what
\* it was before the run, and the next run that ingests the same categories yields
\* every source of the failed run again.
C4_PartialFailureSafety ==
    /\ BatchFailed => tracker_file = tracker_at_start
    /\ (runs >= 2 /\ last_run.error \in {"embed", "upsert"} /\ Covers(doc_type, last_run.doc_type))
          => last_run.sources \subseteq SourcesOf(raw_docs)

\* C4 witness: the second of three batches failed after the first was upserted, and the
\* next run has ingested the sources again
C4_Witness ==
    /\ runs = 2
    /\ last_run.error \in {"embed", "upsert"}
    /\ last_run.batch_start = INDEX_BATCH
    /\ last_run.nchunks > 2 * INDEX_BATCH
    /\ last_run.upserted # {}
    /\ last_run.sources # {}
    /\ last_run.sources \subseteq SourcesOf(raw_docs)

\* the current run found no raw documents and did nothing
NoWork ==
    /\ raw_docs = <<>>
    /\ pc = "returned"
    /\ embed_calls = 0
    /\ upsert_calls = 0
    /\ tracker_file = tracker_at_start

DocsWithChunk(f, k) ==
    Cardinality({j \in 1..Len(FileTexts(f)) :
        Len(chunk_text(FileTexts(f)[j], Nil, NoMetadata, CHUNK_SIZE, CHUNK_OVERLAP)) > k})

PointsOf(f, k) ==
    {q \in store[CAPTIONS_COLLECTION] \cup store[STORIES_COLLECTION] :
        q.payload.source = f /\ q.payload.chunk_index = k}

\* C6: when a run failed after upserting some batches and the next run re-indexes the
\* same files and upserts all their chunks, every point id of the failed run is upserted
\* again and the store holds one point per (source document, chunk_index).
C6_IdempotentReindexing ==
    (/\ runs >= 2
     /\ last_run.outcome = "failed"
     /\ last_run.upserted # {}
     /\ Covers(doc_type, last_run.doc_type)
     /\ pc = "done"
     /\ Cardinality(upserted) = Len(all_chunks))
        => /\ last_run.upserted \subseteq upserted
           /\ \A f \in SourcesOf(raw_docs) : \A k \in 0..Len(all_chunks) :
                 Cardinality(PointsOf(f, k)) = DocsWithChunk(f, k)

(***************************************************************************)
(* Properties of QdrantProcessTracker, checked under SpecTracker.           *)
(***************************************************************************)
NoDuplicates(tr) ==
    \A c \in DOMAIN tr : \A i, j \in 1..Len(tr[c]) : i # j => tr[c][i] # tr[c][j]

\* C11: mark_as_processed of a source already in the category's list leaves
\* processed_files as it was; no source occurs twice in a category's list; and a call
\* leaves the lists of the other categories as they were.
C11_TrackerIdempotence ==
    /\ NoDuplicates(processed_files)
    /\ last_call.op = "mark" =>
        /\ is_processed(last_call.before, last_call.source, last_call.category)
              => processed_files = last_call.before
        /\ \A c \in DOMAIN last_call.before \ {last_call.category} :
              processed_files[c] = last_call.before[c]

\* C11 witness: the same source is marked twice in a row in one category, the other
\* category holding a source
C11_Witness ==
    /\ last_call.op = "mark"
    /\ is_processed(last_call.before, last_call.source, last_call.category)
    /\ prev_call.op = "mark"
    /\ prev_call.source = last_call.source
    /\ prev_call.category = last_call.category
    /\ \E c \in DOMAIN processed_files \ {last_call.category} : processed_files[c] # <<>>

\* a new tracker has loaded the path right after a save of the previous object
ReloadedAfterSave == last_call.op = "new" /\ prev_call.op = "save"

\* the new tracker reports, for the categories cats, the sets the saving tracker held
SameSets(cats) ==
    \A c \in cats :
        /\ get_processed_files(processed_files, c) = get_processed_files(prev_call.before, c)
        /\ \A s \in TrackerSources :
              is_processed(processed_files, s, c) = is_processed(prev_call.before, s, c)

\* a tracker constructed where no file exists holds empty sets
MissingLoadsEmpty ==
    (last_call.op = "new" /\ last_call.file_before = MissingFile)
        => /\ last_call.outcome = "returned"
           /\ \A c \in TrackerCategories : get_processed_files(processed_files, c) = {}

C13_AtomicSave ==
    (ReloadedAfterSave /\ prev_call.outcome \in {"swallowed", "crashed"})
        => \A c \in {"captions", "stories"} :
              get_processed_files(load(prev_call.file_before), c)
                  \subseteq get_processed_files(processed_files, c)

(***************************************************************************)
(* Properties of hybrid_search and the /search endpoint, checked under      *)
(* SpecSearch.                                                              *)
(***************************************************************************)
\* the cases in which only the dense query is to be issued
DenseOnlyCase == lookup \in {"raises", "no attribute", "none"} \/ ~TextGiven(text_query)

\* hybrid_search has returned its list
HybridReturned == s_pc \in {"filter", "done"}

\* C14: when the collection has no sparse configuration, the lookup fails, no text query
\* is given or the fused query raises, hybrid_search returns the hits of a dense query
\* over limit candidates and ends in an error only when that dense query raised; a
\* fused query (two prefetches of 2 * limit, limit results) is issued only for a
\* collection with a sparse configuration and a text query.
C14_FusionFallback ==
    /\ (queries # <<>> /\ DenseOnlyCase) => queries = <<DenseQuery(limit)>>
    /\ Len(queries) = 2 => queries = <<FusedQuery(limit), DenseQuery(limit)>>
    /\ (HybridReturned /\ (DenseOnlyCase \/ Len(queries) = 2))
          => /\ hits.kind = "dense"
             /\ queries[Len(queries)] = [kind |-> "dense", limit |-> limit, prefetch |-> <<>>]
             /\ results = hits.points
    /\ (s_pc = "error" /\ queries # <<>>)
          => s_error = "dense query" /\ queries[Len(queries)].kind = "dense"
    /\ \A i \in 1..Len(queries) :
          queries[i].kind = "fused"
              => /\ lookup = "sparse"
                 /\ TextGiven(text_query)
                 /\ i = 1
                 /\ queries[i].limit = limit
                 /\ Len(queries[i].prefetch) = 2
                 /\ \A k \in 1..2 : queries[i].prefetch[k].limit = 2 * limit

\* C14 witness: the fused query raised and the call returned the dense hits
C14_Witness ==
    /\ HybridReturned
    /\ Len(queries) = 2
    /\ queries[1].kind = "fused"
    /\ hits.kind = "dense"
    /\ results # <<>>

\* C15: the endpoint returns exactly the results of the store query whose score is at
\* least score_threshold, in the store's order: none below the floor, none at or above
\* it dropped, at most limit of them.
C15_ScoreFloor ==
    (s_pc = "done" /\ via = "endpoint")
        => /\ results = hits.points
           /\ filtered = SelectSeq(hits.points, LAMBDA h : h.score >= score_threshold)
           /\ \A i \in 1..Len(filtered) : filtered[i].score >= score_threshold
           /\ \A j \in 1..Len(hits.points) :
                 hits.points[j].score >= score_threshold
                     => \E i \in 1..Len(filtered) : filtered[i] = hits.points[j]
           /\ Len(filtered) <= limit

\* C15 witness: of two hits the one on the floor is returned and the one below is not
C15_Witness ==
    /\ s_pc = "done"
    /\ via = "endpoint"
    /\ Len(hits.points) = 2
    /\ hits.points[1].score = score_threshold
    /\ hits.points[2].score < score_threshold
    /\ Len(filtered) = 1

(***************************************************************************)
(* Properties of ensure_collection under concurrency, checked under         *)
(* SpecEnsure.                                                              *)
(***************************************************************************)
\* C17: in every interleaving of callers that ensure the same absent collection, no
\* call of ensure_collection raises and the collection is created once; for a
\* collection that exists, no create call is issued.
C17_RaceSafeCreation ==
    /\ \A c \in Callers : e_pc[c].at # "raised"
    /\ \A n \in {CAPTIONS_COLLECTION, STORIES_COLLECTION} : e_create_calls[n] <= 1

(***************************************************************************)
(* Further properties of index_documents (Spec) and of chunk_text           *)
(* (SpecChunker).                                                           *)
(***************************************************************************)
\* C16: when the embedding call or an upsert raises in a batch, the exception does not
\* leave index_documents: the run stops and ends with a failure result instead.
C16_StructuredFailure == BatchFailed => pc # "failed"

\* C18: the chunks of a returned list are numbered 0, 1, ..., n-1 in list order, each
\* has total_chunks = n, and the list is empty exactly when the text is empty or blank.
C18_ChunkNumbering ==
    cpc = "done" =>
        /\ \A i \in 1..Len(result) :
              /\ result[i].payload.chunk_index = i - 1
              /\ result[i].payload.total_chunks = Len(result)
        /\ (result = <<>>) <=> (text = <<>> \/ \A i \in 1..Len(text) : text[i] = " ")

\* C18 witness: a list of three or more chunks has been returned
C18_Witness ==
    /\ cpc = "done"
    /\ Len(result) >= 3
    /\ result[Len(result)].payload.chunk_index = Len(result) - 1

\* position in raw_docs of the document a chunk was cut from
DocPosition(ch) == CHOOSE k \in 1..Len(raw_docs) : raw_docs[k].id = ch.payload.parent_id

\* ids of the points built from the batch in hand
BatchPointIds ==
    {captions_points[k].id : k \in 1..Len(captions_points)}
        \cup {stories_points[k].id : k \in 1..Len(stories_points)}

\* C19: all_chunks lists the documents in ingestion order and each document's chunks in
\* chunk_index order; batch k is the slice of INDEX_BATCH chunks at (k-1) * INDEX_BATCH,
\* so every chunk is in one batch; and the embedding call of a batch is made after the
\* upserts of the batch before it.
C19_SequentialBatching ==
    /\ \A k \in 1..(Len(all_chunks) - 1) :
          IF all_chunks[k + 1].payload.parent_id = all_chunks[k].payload.parent_id
          THEN all_chunks[k + 1].payload.chunk_index = all_chunks[k].payload.chunk_index + 1
          ELSE /\ all_chunks[k + 1].payload.chunk_index = 0
               /\ DocPosition(all_chunks[k + 1]) > DocPosition(all_chunks[k])
    /\ batch_start % INDEX_BATCH = 0
    /\ pc \in {"upsert_captions", "upsert_stories"} =>
          /\ embed_calls = (batch_start \div INDEX_BATCH) + 1
          /\ BatchPointIds \subseteq
                {all_chunks[k].id : k \in (batch_start + 1)..(batch_start + INDEX_BATCH)
                                           \cap 1..Len(all_chunks)}
    /\ pc = "embed" =>
          /\ embed_calls = batch_start \div INDEX_BATCH
          /\ batch_start < Len(all_chunks)
          /\ BatchPointIds \subseteq upserted
    /\ pc \in {"commit", "done"} =>
          /\ batch_start >= Len(all_chunks)
          /\ embed_calls * INDEX_BATCH >= Len(all_chunks)
          /\ (embed_calls - 1) * INDEX_BATCH < Len(all_chunks) \/ embed_calls = 0

\* C19 witness: the third batch is about to be embedded, the first two are upserted
C19_Witness ==
    /\ pc = "embed"
    /\ batch_start = 2 * INDEX_BATCH
    /\ embed_calls = 2
    /\ Cardinality(upserted) = 2 * INDEX_BATCH
    /\ Cardinality({all_chunks[k].payload.parent_id : k \in 1..Len(all_chunks)}) >= 2

\* the captions and stories collections hold points of their own type only, no point
\* is in both, and a collection that holds points exists
RoutedStore ==
    /\ \A q \in store[CAPTIONS_COLLECTION] : q.payload.type = "caption"
    /\ \A q \in store[STORIES_COLLECTION] : q.payload.type # "caption"
    /\ \A q1 \in store[CAPTIONS_COLLECTION], q2 \in store[STORIES_COLLECTION] : q1.id # q2.id
    /\ \A n \in {CAPTIONS_COLLECTION, STORIES_COLLECTION} : store[n] # {} => n \in collections

\* a step that creates a collection or writes points is the upsert step of a non-empty
\* group and touches that group's collection only
RoutedStep ==
    (collections' # collections \/ store' # store) =>
        \/ /\ pc = "upsert_captions"
           /\ captions_points # <<>>
           /\ CAPTIONS_COLLECTION \in collections'
           /\ collections' \subseteq collections \cup {CAPTIONS_COLLECTION}
           /\ store'[STORIES_COLLECTION] = store[STORIES_COLLECTION]
           /\ \A q \in store'[CAPTIONS_COLLECTION] \ store[CAPTIONS_COLLECTION] :
                 \E k \in 1..Len(captions_points) : q = captions_points[k]
        \/ /\ pc = "upsert_stories"
           /\ stories_points # <<>>
           /\ STORIES_COLLECTION \in collections'
           /\ collections' \subseteq collections \cup {STORIES_COLLECTION}
           /\ store'[CAPTIONS_COLLECTION] = store[CAPTIONS_COLLECTION]
           /\ \A q \in store'[STORIES_COLLECTION] \ store[STORIES_COLLECTION] :
                 \E k \in 1..Len(stories_points) : q = stories_points[k]

\* C20: a point is upserted to the captions collection exactly when its chunk's type is
\* caption and to the stories collection otherwise, never to both; a collection is
\* ensured before the upsert to it and only for a non-empty group.
C20_RoutingByType == [](RoutedStore) /\ [][RoutedStep]_vars

\* C20 witness: one run has upserted caption points and story points
C20_Witness ==
    /\ pc = "done"
    /\ \E q \in store[CAPTIONS_COLLECTION] : q.id \in upserted
    /\ \E q \in store[STORIES_COLLECTION] : q.id \in upserted

\* C21: in a run that ends without error, whatever the embedding call returned, every
\* chunk of the run has been upserted and total_indexed equals the number of chunks
\* created and the number of points written to the vector store.
C21_IndexedCountTruthful ==
    pc = "done" =>
        /\ \A k \in 1..Len(all_chunks) : all_chunks[k].id \in upserted
        /\ total_indexed = Len(all_chunks)
        /\ total_indexed = Cardinality(upserted)

\* C22: for a text of N words the windowing loop ends with at most N chunks: it never
\* holds more than N chunks, and the returned list has at most N.
C22_ChunkingTerminates ==
    /\ cpc \in {"loop", "backfill"} => Len(chunks) <= Len(words)
    /\ Returned => Len(result) <= Len(words)

(***************************************************************************)
(* Property of overlapping runs, checked under SpecOverlap.                 *)
(***************************************************************************)
\* C23: when the overlapping runs have all ended normally, the tracker file holds
\* every source that any of them marked, whatever the order of their loads and saves.
C23_NoLostTrackerUpdate ==
    (\A r \in OverlappingRuns : o_pc[r] \in {"done", "returned"})
        => \A r \in OverlappingRuns : \A c \in {"captions", "stories"} :
              o_pc[r] = "done"
                  => o_new[r][c] \subseteq get_processed_files(load(tracker_file), c)

====
